---- MODULE Spec2Model ----
(***************************************************************************)
(* Model of fetch_rates.py: the shared browser pool, the provider base     *)
(* class, a registry of providers and the fetch_all runner.                *)
(*                                                                         *)
(* Numbers (rates, fees) are fixed-point integers in units of 1/10000, so  *)
(* that round(rate, 3) and round(fee, 2) are real roundings.               *)
(*                                                                         *)
(* asyncio is cooperative: one action is the code a task runs between two  *)
(* suspension points (an await that really waits: network or browser I/O,  *)
(* a contended lock, an exhausted semaphore).                              *)
(***************************************************************************)
EXTENDS Integers, Sequences, FiniteSets, TLC

VARIABLES
    providers,     \* _providers: the registered provider instances, in order
    tasks,         \* fetch_all's http_tasks + browser_tasks, once built
    mainPc,        \* position of fetch_all / the __main__ runner
    nextStart,     \* next task of the gather to get its first step
    pc,            \* position of every task of the gather (0 = _pool._start())
    ret,           \* what each task's fetch_rate returned or raised
    pool,          \* _pool: _started, _pw, _browser, _context
    init_lock,     \* _pool._init_lock
    sem,           \* _pool._sem
    pages,         \* tasks whose browser page is created and not yet closed
    launches,      \* number of chromium.launch() calls that returned a browser
    liveBrowsers,  \* launched browsers not closed
    contexts,      \* number of new_context() calls that returned a context
    xoom_loaded,   \* Xoom._loaded
    xoom_cache,    \* Xoom._cache
    load_lock,     \* Xoom._load_lock
    snapshot,      \* what fetch_all returned
    readme,        \* what build_readme returned
    files,         \* what __main__ wrote to rates.json and README.md
    closes,        \* number of browser.close() and playwright stop() calls
    stops,         \* number of _pool.stop() calls that returned
    xoom_pages,    \* number of pages Xoom._load got from the pool
    bulk_cache,    \* TapTapSend._cache and Nala._cache
    bulk_requests, \* number of GET requests sent to each bulk endpoint
    ria_fetch_lock,\* _ria_fetch_lock
    lock_created,  \* number of asyncio.Lock() made for _ria_fetch_lock
    threads        \* tasks whose Scrapling fetch runs in a worker thread

vars == <<providers, tasks, mainPc, nextStart, pc, ret, pool, init_lock, sem, pages,
          launches, liveBrowsers, contexts, xoom_loaded, xoom_cache, load_lock,
          snapshot, readme, files, closes, stops, xoom_pages, bulk_cache,
          bulk_requests, ria_fetch_lock, lock_created, threads>>

-----------------------------------------------------------------------------
(* Bounds and constants of the module *)

\* BrowserPool(max_pages): the pool is built with one page slot here (the
\* program's default is 12), so that the page gate does block.
MaxPages == 1

TARGET == "BDT"

CURRENCIES ==
    <<"USD", "GBP", "EUR", "CAD", "AUD", "SGD",
      "AED", "MYR", "SAR", "KWD", "QAR", "JPY">>

\* The tracked codes the model runs: one every provider supports and one
\* that SendWave and Western Union do not.
TrackedSample == {"USD", "AED"}

Codes == SelectSeq(CURRENCIES, LAMBDA c : c \in TrackedSample)

CodeSet == {Codes[i] : i \in DOMAIN Codes}

\* The providers the model registers, in the order the classes are defined.
Registry == <<"Wise", "SendWave", "Western Union", "Xoom">>

-----------------------------------------------------------------------------
(* Python values *)

PyNone == [kind |-> "None"]

PyNum(x) == [kind |-> "num", val |-> x]

PyTuple(r, f) == [kind |-> "tuple", rate |-> r, fee |-> f]

\* fetch_rate ended by raising (an exception derived from Exception)
Raised == [kind |-> "raise"]

\* fetch_rate has not ended
Pending == [kind |-> "pending"]

\* The text of x: what json.dumps(x) or build_readme returns
PyStr(x) == [kind |-> "str", val |-> x]

\* round(x, ndigits) on fixed-point x: to the nearest multiple of step, an
\* exact half going to the even multiple.
PyRound(x, step) ==
    LET q == x \div step
        r == x % step
    IN  IF 2 * r < step THEN q * step
        ELSE IF 2 * r > step THEN (q + 1) * step
        ELSE IF q % 2 = 0 THEN q * step ELSE (q + 1) * step

Round3(x) == PyRound(x, 10)

Round2(x) == PyRound(x, 100)

Lower(c) ==
    CASE c = "USD" -> "usd" [] c = "GBP" -> "gbp" [] c = "EUR" -> "eur"
      [] c = "CAD" -> "cad" [] c = "AUD" -> "aud" [] c = "SGD" -> "sgd"
      [] c = "AED" -> "aed" [] c = "MYR" -> "myr" [] c = "SAR" -> "sar"
      [] c = "KWD" -> "kwd" [] c = "QAR" -> "qar" [] c = "JPY" -> "jpy"

-----------------------------------------------------------------------------
(* Providers *)

Wise_REGIONS ==
    [USD |-> "us", GBP |-> "gb", EUR |-> "de", CAD |-> "ca", AUD |-> "au",
     SGD |-> "sg", AED |-> "ae", MYR |-> "my", SAR |-> "sa", KWD |-> "kw",
     QAR |-> "qa", JPY |-> "jp", NZD |-> "nz", BHD |-> "bh", OMR |-> "om"]

SendWave_CORRIDORS ==
    [USD |-> <<"US", "USD">>, GBP |-> <<"GB", "GBP">>,
     EUR |-> <<"DE", "EUR">>, CAD |-> <<"CA", "CAD">>]

SendWave_URLS ==
    [USD |-> "usd_us", GBP |-> "gbp_gb", EUR |-> "eur_de", CAD |-> "cad_ca"]

WesternUnion_REGIONS ==
    [USD |-> "us", GBP |-> "gb", EUR |-> "de", CAD |-> "ca", AUD |-> "au",
     SGD |-> "sg", JPY |-> "jp"]

url(p) ==
    CASE p = "Wise" -> "https://wise.com/us/currency-converter/usd-to-bdt-rate"
      [] p = "SendWave" ->
            "https://www.sendwave.com/en/currency-converter/usd_us-bdt_bd"
      [] p = "Western Union" ->
            "https://www.westernunion.com/us/en/currency-converter/usd-to-bdt-rate.html"
      [] p = "Xoom" -> "https://www.xoom.com/bangladesh/send-money"
      [] p = "TapTapSend" ->
            "https://www.taptapsend.com/send-money-to/bangladesh"
      [] p = "NALA" -> "https://www.nala.com/country/bangladesh"
      [] p = "Ria" ->
            "https://www.riamoneytransfer.com/en-us/rates-conversion/?From=USD&To=BDT&Amount=1"
      [] p = "MoneyGram" ->
            "https://www.moneygram.com/us/en/corridor/bangladesh"
      [] p = "nsave" -> "https://www.nsave.com/calculator/usd-bdt"

delivery(p) ==
    CASE p = "Wise" -> "Bank"
      [] p = "SendWave" -> "Bank, Mobile Wallet"
      [] p = "Western Union" -> "Bank, Cash Pickup, Mobile Wallet"
      [] p = "Xoom" -> "Bank, Cash Pickup, Mobile Wallet"
      [] p = "TapTapSend" -> "Bank, Mobile Wallet"
      [] p = "NALA" -> "Bank, Mobile Wallet"
      [] p = "Ria" -> "Bank, Cash Pickup, Mobile Wallet"
      [] p = "MoneyGram" -> "Bank, Cash Pickup, Mobile Wallet"
      [] p = "nsave" -> "Bank, Mobile Wallet"

get_url(p, src) ==
    CASE p = "Wise" ->
            LET region == IF src \in DOMAIN Wise_REGIONS
                          THEN Wise_REGIONS[src] ELSE "us"
            IN  "https://wise.com/" \o region \o "/currency-converter/"
                    \o Lower(src) \o "-to-bdt-rate"
      [] p = "SendWave" ->
            IF src \in DOMAIN SendWave_CORRIDORS
            THEN "https://www.sendwave.com/en/currency-converter/"
                    \o SendWave_URLS[src] \o "-bdt_bd"
            ELSE url(p)
      [] p = "Western Union" ->
            LET region == IF src \in DOMAIN WesternUnion_REGIONS
                          THEN WesternUnion_REGIONS[src] ELSE "us"
            IN  "https://www.westernunion.com/" \o region
                    \o "/en/currency-converter/" \o Lower(src)
                    \o "-to-bdt-rate.html"
      [] p = "Ria" ->
            "https://www.riamoneytransfer.com/en-us/rates-conversion/?From="
                \o src \o "&To=BDT&Amount=1"
      [] OTHER -> url(p)

\* Rate(provider, url, rate, delivery, fee); asdict keeps the five fields.
Rate(provider, u, rate, d, fee) ==
    [provider |-> provider, url |-> u, rate |-> rate, delivery |-> d,
     fee |-> fee]

\* Mutant of scrape: a None from fetch_rate still makes a record.
scrape_none_record(p, src, result) ==
    IF result.kind = "raise" THEN PyNone
    ELSE IF result = PyNone
    THEN Rate(p, get_url(p, src), 0, delivery(p), PyNone)
    ELSE LET rate == IF result.kind = "tuple" THEN result.rate ELSE result
             fee  == IF result.kind = "tuple" THEN result.fee ELSE PyNone
         IN  IF rate.kind # "num" THEN PyNone
             ELSE Rate(p, get_url(p, src), Round3(rate.val), delivery(p),
                       IF fee # PyNone THEN PyNum(Round2(fee.val)) ELSE PyNone)

\* Mutant of scrape: the fee of a (rate, fee) pair is dropped.
scrape_drop_fee(p, src, result) ==
    IF result.kind = "raise" THEN PyNone
    ELSE IF result = PyNone THEN PyNone
    ELSE LET rate == IF result.kind = "tuple" THEN result.rate ELSE result
         IN  IF rate.kind # "num" THEN PyNone
             ELSE Rate(p, get_url(p, src), Round3(rate.val), delivery(p),
                       PyNone)

\* Provider.scrape on what fetch_rate returned or raised: a Rate, or None.
scrape(p, src, result) ==
    IF result.kind = "raise" THEN PyNone
    ELSE IF result = PyNone THEN PyNone
    ELSE LET rate == IF result.kind = "tuple" THEN result.rate ELSE result
             fee  == IF result.kind = "tuple" THEN result.fee ELSE PyNone
         IN  IF rate.kind # "num" THEN PyNone
             ELSE Rate(p, get_url(p, src), Round3(rate.val), delivery(p),
                       IF fee # PyNone THEN PyNum(Round2(fee.val)) ELSE PyNone)

\* Mutant of fetch_one: the result is tagged with the first tracked code.
fetch_one_first_code(p, code, result) == <<Codes[1], scrape(p, code, result)>>

\* _fetch_one: the (code, result) pair of one task.
fetch_one(p, code, result) == <<code, scrape(p, code, result)>>

needs_browser(p) == p \in {"Western Union", "WorldRemit", "Xoom"}

-----------------------------------------------------------------------------
(* What the endpoints can answer *)

\* GET https://wise.com/rates/live: the request raises (timeout, network),
\* or answers a status and a JSON body whose "value" the code does not check.
WiseResponses ==
    {[exc |-> TRUE,  status |-> 0,   value |-> PyNone],
     [exc |-> FALSE, status |-> 503, value |-> PyNone],
     [exc |-> FALSE, status |-> 200, value |-> PyNone],
     [exc |-> FALSE, status |-> 200, value |-> PyNum(0)],
     [exc |-> FALSE, status |-> 200, value |-> PyNum(1222004)]}

Wise_fetch_rate(src, resp) ==
    IF resp.exc THEN Raised
    ELSE IF resp.status # 200 THEN PyNone
    ELSE resp.value

\* GET https://app.sendwave.com/v2/pricing-public
SendWaveResponses ==
    {[exc |-> TRUE,  status |-> 0,   baseExchangeRate |-> PyNone,
      baseFeeAmount |-> PyNone],
     [exc |-> FALSE, status |-> 404, baseExchangeRate |-> PyNone,
      baseFeeAmount |-> PyNone],
     [exc |-> FALSE, status |-> 200, baseExchangeRate |-> PyNone,
      baseFeeAmount |-> PyNum(9900)],
     [exc |-> FALSE, status |-> 200, baseExchangeRate |-> PyNum(0),
      baseFeeAmount |-> PyNum(9900)],
     [exc |-> FALSE, status |-> 200, baseExchangeRate |-> PyNum(1230000),
      baseFeeAmount |-> PyNone],
     [exc |-> FALSE, status |-> 200, baseExchangeRate |-> PyNum(1215694),
      baseFeeAmount |-> PyNum(9949)]}

\* SendWave.fetch_rate after the corridor lookup succeeded.
SendWave_fetch_rate(src, resp) ==
    IF resp.exc THEN Raised
    ELSE IF resp.status # 200 THEN PyNone
    ELSE LET rate    == resp.baseExchangeRate
             fee_str == resp.baseFeeAmount
         IN  IF rate = PyNone \/ rate = PyNum(0) THEN PyNone
             ELSE PyTuple(rate, fee_str)

\* A page session of Western Union: goto raises, or the wait for the rate
\* pattern raises (timeout), or the pattern's number comes back (here the
\* rate Wise's answer rounds to).
WesternUnionOutcomes ==
    {[goto_exc |-> TRUE,  wait_exc |-> FALSE, value |-> PyNone],
     [goto_exc |-> FALSE, wait_exc |-> TRUE,  value |-> PyNone],
     [goto_exc |-> FALSE, wait_exc |-> FALSE, value |-> PyNum(1222000)]}

\* The body of WesternUnion.fetch_rate's page block.
WesternUnion_fetch_rate(src, o) ==
    IF o.goto_exc THEN Raised
    ELSE IF o.wait_exc THEN PyNone
    ELSE o.value

\* A page session of Xoom: the page shows the rate of the one currency it
\* detected.
XoomOutcomes ==
    {[goto_exc |-> TRUE,  wait_exc |-> FALSE, cur |-> "", val |-> 0],
     [goto_exc |-> FALSE, wait_exc |-> TRUE,  cur |-> "", val |-> 0],
     [goto_exc |-> FALSE, wait_exc |-> FALSE, cur |-> "USD", val |-> 1222000],
     [goto_exc |-> FALSE, wait_exc |-> FALSE, cur |-> "AED", val |-> 332500]}

\* self._cache.get(src)
cache_get(cache, src) ==
    IF src \in DOMAIN cache THEN PyNum(cache[src]) ELSE PyNone

\* A dict[str, float] held where None may be held too
PyDict(m) == [kind |-> "dict", map |-> m]

\* GET https://api.taptapsend.com/api/fxRates: data["availableCountries"],
\* each with its currency and its corridors.
TapTapSendResponses ==
    {[exc |-> TRUE,  status |-> 0,   data |-> <<>>],
     [exc |-> FALSE, status |-> 500, data |-> <<>>],
     [exc |-> FALSE, status |-> 200, data |-> <<>>],
     [exc |-> FALSE, status |-> 200, data |->
        <<[currency |-> "USD", corridors |->
              <<[currency |-> "BDT", fxRate |-> 1210000],
                [currency |-> "INR", fxRate |-> 1300000]>>],
          [currency |-> "USD", corridors |->
              <<[currency |-> "BDT", fxRate |-> 1225000],
                [currency |-> "BDT", fxRate |-> 1200000]>>]>>]}

\* TapTapSend._load: the inner loop, over the corridors of one country.
RECURSIVE TapTapSend_corridors(_, _, _)
TapTapSend_corridors(corridors, cur, rates) ==
    IF corridors = <<>> THEN rates
    ELSE LET corridor == Head(corridors)
             rate == corridor.fxRate
         IN  TapTapSend_corridors(Tail(corridors), cur,
                IF corridor.currency = TARGET
                      /\ (cur \notin DOMAIN rates \/ rate > rates[cur])
                THEN (cur :> rate) @@ rates
                ELSE rates)

\* TapTapSend._load: the loop over data["availableCountries"].
RECURSIVE TapTapSend_parse(_, _)
TapTapSend_parse(countries, rates) ==
    IF countries = <<>> THEN rates
    ELSE TapTapSend_parse(Tail(countries),
            TapTapSend_corridors(Head(countries).corridors,
                                 Head(countries).currency, rates))

\* GET https://partners-api.prod.nala-api.com/v1/fx/rates: data["data"]
NalaResponses ==
    {[exc |-> TRUE,  status |-> 0,   data |-> <<>>],
     [exc |-> FALSE, status |-> 404, data |-> <<>>],
     [exc |-> FALSE, status |-> 200, data |-> <<>>],
     [exc |-> FALSE, status |-> 200, data |->
        <<[source_currency |-> "USD", destination_currency |-> "BDT",
           provider_name |-> "NALA", rate |-> 1218000],
          [source_currency |-> "USD", destination_currency |-> "BDT",
           provider_name |-> "Other", rate |-> 1300000],
          [source_currency |-> "USD", destination_currency |-> "KES",
           provider_name |-> "NALA", rate |-> 1290000],
          [source_currency |-> "AED", destination_currency |-> "BDT",
           provider_name |-> "NALA", rate |-> 331000]>>]}

\* Nala._load: the loop over data["data"].
RECURSIVE Nala_parse(_, _)
Nala_parse(entries, rates) ==
    IF entries = <<>> THEN rates
    ELSE LET entry == Head(entries)
         IN  Nala_parse(Tail(entries),
                IF entry.destination_currency = TARGET
                      /\ entry.provider_name = "NALA"
                THEN (entry.source_currency :> entry.rate) @@ rates
                ELSE rates)

Ria_CURRENCIES ==
    {"USD", "GBP", "EUR", "CAD", "AUD", "SGD", "AED", "SAR", "JPY"}

\* A Scrapling fetch in its worker thread: the fetcher raises, or the page
\* comes back and its text cannot be read (an exception leaves the
\* function), or it shows no number, or it shows this number.
ScraplingOutcomes ==
    {[fetch_exc |-> TRUE,  parse_exc |-> FALSE, value |-> PyNone],
     [fetch_exc |-> FALSE, parse_exc |-> TRUE,  value |-> PyNone],
     [fetch_exc |-> FALSE, parse_exc |-> FALSE, value |-> PyNone],
     [fetch_exc |-> FALSE, parse_exc |-> FALSE, value |-> PyNum(2500000)],
     [fetch_exc |-> FALSE, parse_exc |-> FALSE, value |-> PyNum(1219506)]}

\* The range each sync function accepts a number in
scrapling_valid(p, src, x) ==
    IF p = "Ria"
    THEN (50000 < x /\ x < 10000000) \/ (1000 < x /\ x < 20000 /\ src = "JPY")
    ELSE 500000 < x /\ x < 2000000

\* _scrapling_ria_fetch_sync, _scrapling_moneygram_fetch_sync and
\* _scrapling_nsave_fetch_sync on the outcome o of the fetch.
scrapling_fetch_sync(p, src, o) ==
    IF o.fetch_exc THEN PyNone
    ELSE IF o.parse_exc THEN Raised
    ELSE IF o.value = PyNone THEN PyNone
    ELSE IF scrapling_valid(p, src, o.value.val) THEN o.value ELSE PyNone

-----------------------------------------------------------------------------
(* The task matrix of fetch_all *)

TaskList(P) ==
    [k \in 1..(Len(Codes) * Len(P)) |->
        [provider |-> P[((k - 1) % Len(P)) + 1],
         code     |-> Codes[((k - 1) \div Len(P)) + 1]]]

http_tasks == TaskList(SelectSeq(providers, LAMBDA p : ~needs_browser(p)))

browser_tasks == TaskList(SelectSeq(providers, LAMBDA p : needs_browser(p)))

\* The gather's arguments are _pool._start(), which is task 0, then these.
NT == Len(tasks)

TaskIds == 1..NT

Prewarm == 0

NoTask == 0 - 1

-----------------------------------------------------------------------------
(* The shared state as one record, and the steps of the tasks as functions  *)
(* on it: a step runs to the task's next suspension point.                  *)

St ==
    [pc |-> pc, ret |-> ret, pool |-> pool, init_lock |-> init_lock,
     sem |-> sem, pages |-> pages, launches |-> launches,
     liveBrowsers |-> liveBrowsers, contexts |-> contexts,
     xoom_loaded |-> xoom_loaded,
     xoom_cache |-> xoom_cache, load_lock |-> load_lock,
     closes |-> closes, stops |-> stops, xoom_pages |-> xoom_pages,
     bulk_cache |-> bulk_cache, bulk_requests |-> bulk_requests,
     ria_fetch_lock |-> ria_fetch_lock, lock_created |-> lock_created,
     threads |-> threads]

stVars == <<pc, ret, pool, init_lock, sem, pages, launches, liveBrowsers,
            contexts, xoom_loaded, xoom_cache, load_lock, closes, stops,
            xoom_pages, bulk_cache, bulk_requests, ria_fetch_lock,
            lock_created, threads>>

Apply(s) ==
    /\ pc' = s.pc
    /\ ret' = s.ret
    /\ pool' = s.pool
    /\ init_lock' = s.init_lock
    /\ sem' = s.sem
    /\ pages' = s.pages
    /\ launches' = s.launches
    /\ liveBrowsers' = s.liveBrowsers
    /\ contexts' = s.contexts
    /\ xoom_loaded' = s.xoom_loaded
    /\ xoom_cache' = s.xoom_cache
    /\ load_lock' = s.load_lock
    /\ closes' = s.closes
    /\ stops' = s.stops
    /\ xoom_pages' = s.xoom_pages
    /\ bulk_cache' = s.bulk_cache
    /\ bulk_requests' = s.bulk_requests
    /\ ria_fetch_lock' = s.ria_fetch_lock
    /\ lock_created' = s.lock_created
    /\ threads' = s.threads

\* fetch_rate of task t returned or raised r: scrape and _fetch_one finish
\* without suspending.
Settle(s, t, r) == [s EXCEPT !.pc[t] = "done", !.ret[t] = r]

\* Mutant of LockRelease: the lock is freed and no waiter is woken.
LockRelease_no_wakeup(l) == [l EXCEPT !.holder = NoTask]

\* asyncio.Lock.release: the lock passes to the first waiter, if any.
LockRelease(l) ==
    IF l.waiters = <<>> THEN [l EXCEPT !.holder = NoTask]
    ELSE [holder |-> Head(l.waiters), waiters |-> Tail(l.waiters)]

\* asyncio.Semaphore.release: the slot passes to the first waiter, if any.
SemRelease(s) ==
    IF s.sem.waiters = <<>> THEN [s EXCEPT !.sem.value = @ + 1]
    ELSE [s EXCEPT !.sem.waiters = Tail(@),
                   !.pc[Head(s.sem.waiters)] = "sem_woken"]

\* page(): new_page and route inside the semaphore, up to the yield.  Both
\* calls are taken to return: the page exists from here to page_exit.
page_open(s, t) ==
    [s EXCEPT !.pages = @ \cup {t}, !.pc[t] = "in_page",
              !.xoom_pages = IF tasks[t].provider = "Xoom" THEN @ + 1 ELSE @]

\* Mutant of page_enter_sem: the page is opened without waiting for a slot.
page_enter_nogate(s, t) == page_open([s EXCEPT !.sem.value = @ - 1], t)

\* page(): async with self._sem
page_enter_sem(s, t) ==
    IF s.sem.value > 0 /\ s.sem.waiters = <<>>
    THEN page_open([s EXCEPT !.sem.value = @ - 1], t)
    ELSE [s EXCEPT !.sem.waiters = Append(@, t), !.pc[t] = "sem_wait"]

\* Mutant of page_exit: no finally, an exception skips the close.
page_exit_nofinally(s, t, exc) ==
    SemRelease(IF exc THEN s ELSE [s EXCEPT !.pages = @ \ {t}])

\* page(): the caller's block ended, by an exception (exc) or not: the
\* finally closes the page, then the async with releases the semaphore.
page_exit(s, t, exc) == SemRelease([s EXCEPT !.pages = @ \ {t}])

\* An exception leaves page() before a page was made: it crosses the
\* caller's block (Xoom holds its load lock there) into scrape.
page_raised(s, t) ==
    IF tasks[t].provider = "Xoom"
    THEN Settle([s EXCEPT !.load_lock = LockRelease(@)], t, Raised)
    ELSE Settle(s, t, Raised)

\* _start() returned to its caller: the gather (task 0) or page().
after_start(s, t) ==
    IF t = Prewarm THEN [s EXCEPT !.pc[t] = "done"] ELSE page_enter_sem(s, t)

\* _start() raised to its caller.
start_raised(s, t) ==
    IF t = Prewarm THEN [s EXCEPT !.pc[t] = "failed"] ELSE page_raised(s, t)

\* _start(): the unlocked check, then the lock.
pool_start(s, t) ==
    IF s.pool.started THEN after_start(s, t)
    ELSE IF s.init_lock.holder = NoTask
    THEN [s EXCEPT !.init_lock.holder = t, !.pc[t] = "pw_start"]
    ELSE [s EXCEPT !.init_lock.waiters = Append(@, t), !.pc[t] = "init_wait"]

\* _start(): the check under the lock, once the lock is held.
pool_start_locked(s, t) ==
    IF s.pool.started
    THEN after_start([s EXCEPT !.init_lock = LockRelease(@)], t)
    ELSE [s EXCEPT !.pc[t] = "pw_start"]

\* _start(): a launch step raised; the async with releases the lock.
launch_raised(s, t) ==
    start_raised([s EXCEPT !.init_lock = LockRelease(@)], t)

\* _start(): the last launch step returned.
launch_finished(s, t) ==
    after_start([s EXCEPT !.pool.started = TRUE,
                          !.init_lock = LockRelease(@)], t)

\* Xoom.fetch_rate: _load() up to its first suspension.
xoom_load(s, t) ==
    IF s.xoom_loaded
    THEN Settle(s, t, cache_get(s.xoom_cache, tasks[t].code))
    ELSE IF s.load_lock.holder = NoTask
    THEN pool_start([s EXCEPT !.load_lock.holder = t], t)
    ELSE [s EXCEPT !.load_lock.waiters = Append(@, t), !.pc[t] = "load_wait"]

\* Xoom._load(): the check under the load lock.
xoom_load_locked(s, t) ==
    IF s.xoom_loaded
    THEN Settle([s EXCEPT !.load_lock = LockRelease(@)], t,
                cache_get(s.xoom_cache, tasks[t].code))
    ELSE pool_start(s, t)

\* Xoom._load(): the page block ended with outcome o.
xoom_page_done(s, t, o) ==
    IF o.goto_exc
    THEN Settle([page_exit(s, t, o.goto_exc) EXCEPT !.load_lock = LockRelease(@)],
                t, Raised)
    ELSE LET cache == IF o.wait_exc THEN s.xoom_cache
                      ELSE (o.cur :> o.val) @@ s.xoom_cache
         IN  Settle([page_exit(s, t, o.goto_exc) EXCEPT !.xoom_cache = cache,
                                            !.xoom_loaded = TRUE,
                                            !.load_lock = LockRelease(@)],
                    t, cache_get(cache, tasks[t].code))

\* TapTapSend._load / Nala._load up to the request: the cache check, then
\* session.get.
bulk_load(s, t) ==
    LET p == tasks[t].provider
    IN  IF s.bulk_cache[p].kind # "None"
        THEN Settle(s, t, cache_get(s.bulk_cache[p].map, tasks[t].code))
        ELSE [s EXCEPT !.bulk_requests[p] = @ + 1, !.pc[t] = "http"]

\* TapTapSend._load / Nala._load from the response on, rates being what the
\* provider's loop makes of a 200 body; then fetch_rate's .get(src).
bulk_loaded(s, t, resp, rates) ==
    IF resp.exc THEN Settle(s, t, Raised)
    ELSE IF resp.status # 200 THEN Settle(s, t, cache_get(<<>>, tasks[t].code))
    ELSE Settle([s EXCEPT !.bulk_cache[tasks[t].provider] = PyDict(rates)],
                t, cache_get(rates, tasks[t].code))

\* to_thread: the sync function starts in a worker thread.
thread_start(s, t) == [s EXCEPT !.threads = @ \cup {t}, !.pc[t] = "thread"]

\* Mutant of scrapling_fetch: the fetch goes to a thread without the lock.
scrapling_fetch_nolock(s, t) == thread_start(s, t)

\* _scrapling_ria_fetch and _scrapling_extra_fetch: the lock is made if
\* there is none, then async with _ria_fetch_lock.
scrapling_fetch(s, t) ==
    LET s1 == IF s.ria_fetch_lock.kind = "None"
              THEN [s EXCEPT !.ria_fetch_lock =
                                 [kind |-> "Lock",
                                  lock |-> [holder |-> NoTask, waiters |-> <<>>]],
                             !.lock_created = @ + 1]
              ELSE s
    IN  IF s1.ria_fetch_lock.lock.holder = NoTask
        THEN thread_start([s1 EXCEPT !.ria_fetch_lock.lock.holder = t], t)
        ELSE [s1 EXCEPT !.ria_fetch_lock.lock.waiters = Append(@, t),
                        !.pc[t] = "ria_wait"]

\* The sync function ended in its thread with result r: the async with
\* releases the lock, fetch_rate returns or raises r.
scrapling_done(s, t, r) ==
    Settle([s EXCEPT !.threads = @ \ {t},
                     !.ria_fetch_lock =
                        IF @.kind = "None" THEN @
                        ELSE [@ EXCEPT !.lock = LockRelease(@)]],
           t, r)

\* Mutant of stop_browser: self._browser is not reset to None.
stop_browser_kept(s) ==
    IF s.pool.browser # 0
    THEN [s EXCEPT !.liveBrowsers = @ \ {s.pool.browser}, !.closes = @ + 1]
    ELSE s

\* stop(): if self._browser: await self._browser.close(); self._browser = None
stop_browser(s) ==
    IF s.pool.browser # 0
    THEN [s EXCEPT !.pool.browser = 0,
                   !.liveBrowsers = @ \ {s.pool.browser},
                   !.closes = @ + 1]
    ELSE s

\* stop(): if self._pw: await self._pw.stop(); self._pw = None; then
\* self._started = False, and stop() returns.
stop_playwright(s) ==
    LET s1 == IF s.pool.pw # 0
              THEN [s EXCEPT !.pool.pw = 0, !.closes = @ + 1]
              ELSE s
    IN  [s1 EXCEPT !.pool.started = FALSE, !.stops = @ + 1]

-----------------------------------------------------------------------------
(* Assembling the snapshot *)

\* Mutant of sort_insert: a sort that is not stable, a record goes before
\* the records already placed whose rate equals its own.
sort_insert_before_ties(sorted, r) ==
    LET n == Cardinality({i \in DOMAIN sorted : sorted[i].rate > r.rate})
    IN  SubSeq(sorted, 1, n) \o <<r>> \o SubSeq(sorted, n + 1, Len(sorted))

\* list.sort(key=rate, reverse=True) is stable: a record goes after the
\* records already placed whose rate is at least its own.
sort_insert(sorted, r) ==
    LET n == Cardinality({i \in DOMAIN sorted : sorted[i].rate >= r.rate})
    IN  SubSeq(sorted, 1, n) \o <<r>> \o SubSeq(sorted, n + 1, Len(sorted))

RECURSIVE sort_prefix(_, _)
sort_prefix(seq, n) ==
    IF n = 0 THEN <<>> ELSE sort_insert(sort_prefix(seq, n - 1), seq[n])

\* Mutant of sort_desc: the buckets are left in append order.
sort_none(seq) == seq

sort_desc(seq) == sort_prefix(seq, Len(seq))

\* The results of the gather without the one of _start(), in task order.
gather_results ==
    [t \in TaskIds |-> fetch_one(tasks[t].provider, tasks[t].code, ret[t])]

\* data[code] after the append loop: the records of the results tagged code.
bucket(results, code) ==
    LET kept == SelectSeq(results,
                          LAMBDA x : x[1] = code /\ x[2] # PyNone)
    IN  [i \in 1..Len(kept) |-> kept[i][2]]

\* Mutant of assemble: a bucket exists only for a code that got a record.
assemble_seen_codes(results) ==
    [updated_at |-> "now", target |-> TARGET,
     rates |-> [code \in {c \in CodeSet : bucket(results, c) # <<>>} |->
                   sort_desc(bucket(results, code))]]

\* fetch_all: data = {code: [] for code in CURRENCIES}, then from the append
\* loop to the return.
assemble(results) ==
    [updated_at |-> "now", target |-> TARGET,
     rates |-> [code \in CodeSet |-> sort_desc(bucket(results, code))]]

-----------------------------------------------------------------------------
(* build_readme: the lines of the "## Rates" part, one section per tracked  *)
(* code.  The fixed text before and after it is left out.                   *)

DigitStr(d) ==
    CASE d = 0 -> "0" [] d = 1 -> "1" [] d = 2 -> "2" [] d = 3 -> "3"
      [] d = 4 -> "4" [] d = 5 -> "5" [] d = 6 -> "6" [] d = 7 -> "7"
      [] d = 8 -> "8" [] d = 9 -> "9"

\* str(n) of a natural number
RECURSIVE NatStr(_)
NatStr(n) == IF n < 10 THEN DigitStr(n) ELSE NatStr(n \div 10) \o DigitStr(n % 10)

\* the last w decimal digits of n, with leading zeros
RECURSIVE Digits(_, _)
Digits(n, w) == IF w = 0 THEN "" ELSE Digits(n \div 10, w - 1) \o DigitStr(n % 10)

\* f"{x:.3f}" of a fixed-point x >= 0
Format3(x) ==
    LET y == Round3(x) \div 10
    IN  NatStr(y \div 1000) \o "." \o Digits(y % 1000, 3)

\* f"{x:.2f}" of a fixed-point x >= 0
Format2(x) ==
    LET y == Round2(x) \div 100
    IN  NatStr(y \div 100) \o "." \o Digits(y % 100, 2)

\* The em dash (U+2014) of the fee cell, written in ASCII here.
EmDash == "--"

\* rates_map.get(code, [])
rates_get(rates_map, code) ==
    IF code \in DOMAIN rates_map THEN rates_map[code] ELSE <<>>

\* Mutant of has_fee: only the first record is looked at.
has_fee_first(rates) == rates[1].fee # PyNone

\* has_fee = any(r.get("fee") is not None for r in rates)
has_fee(rates) == \E i \in DOMAIN rates : rates[i].fee # PyNone

table_header(code, fee_column) ==
    IF fee_column
    THEN <<"| # | Provider | 1 " \o code \o " = BDT | Fee | Delivery |",
           "|--:|----------|---------------:|-----:|----------|">>
    ELSE <<"| # | Provider | 1 " \o code \o " = BDT | Delivery |",
           "|--:|----------|---------------:|----------|">>

\* The row of record r, the i-th of its bucket, given is_best.
row_line(code, i, r, is_best, fee_column) ==
    LET rank == IF is_best THEN "**" \o NatStr(i) \o "**" ELSE NatStr(i)
        rate_str == IF is_best THEN "**" \o Format3(r.rate) \o "**"
                    ELSE Format3(r.rate)
        provider_str == "[" \o r.provider \o "](" \o r.url \o ")"
        fee_str == IF r.fee # PyNone
                   THEN Format2(r.fee.val) \o " " \o code ELSE EmDash
    IN  IF fee_column
        THEN "| " \o rank \o " | " \o provider_str \o " | " \o rate_str
                \o " | " \o fee_str \o " | " \o r.delivery \o " |"
        ELSE "| " \o rank \o " | " \o provider_str \o " | " \o rate_str
                \o " | " \o r.delivery \o " |"

\* Mutant of table_row: only row 1 is the best one.
table_row_first_only(code, i, rates) ==
    row_line(code, i, rates[i], i = 1, has_fee(rates))

\* One pass of the loop over enumerate(rates, 1).
table_row(code, i, rates) ==
    row_line(code, i, rates[i], rates[i].rate = rates[1].rate, has_fee(rates))

\* Mutant of currency_section: an empty bucket gets an empty table.
currency_section_no_empty_check(rates_map, code) ==
    LET rates == rates_get(rates_map, code)
    IN  <<"### " \o code \o " to BDT", "">>
           \o table_header(code, FALSE)
           \o [i \in 1..Len(rates) |-> table_row(code, i, rates)]
           \o <<"">>

\* One pass of the loop over CURRENCIES.
currency_section(rates_map, code) ==
    LET rates == rates_get(rates_map, code)
    IN  <<"### " \o code \o " to BDT", "">>
           \o IF rates = <<>>
              THEN <<"No rates available.", "">>
              ELSE table_header(code, has_fee(rates))
                      \o [i \in 1..Len(rates) |-> table_row(code, i, rates)]
                      \o <<"">>

RECURSIVE sections(_, _)
sections(rates_map, k) ==
    IF k = 0 THEN <<>>
    ELSE sections(rates_map, k - 1) \o currency_section(rates_map, Codes[k])

build_readme(raw) == <<"## Rates", "">> \o sections(raw.rates, Len(Codes))

-----------------------------------------------------------------------------
(* Initial state: the module is imported, fetch_all has not been called. *)

\* The providers whose fetch_rate loads one bulk endpoint
BulkProviders == {"TapTapSend", "NALA"}

\* The fields of _pool and of the providers after import.
InitSt ==
    /\ nextStart = 0
    /\ pc = <<>>
    /\ ret = <<>>
    /\ pool = [started |-> FALSE, pw |-> 0, browser |-> 0, context |-> 0]
    /\ init_lock = [holder |-> NoTask, waiters |-> <<>>]
    /\ sem = [value |-> MaxPages, waiters |-> <<>>]
    /\ pages = {}
    /\ launches = 0
    /\ liveBrowsers = {}
    /\ contexts = 0
    /\ xoom_loaded = FALSE
    /\ xoom_cache = <<>>
    /\ load_lock = [holder |-> NoTask, waiters |-> <<>>]
    /\ closes = 0
    /\ stops = 0
    /\ xoom_pages = 0
    /\ bulk_cache = [p \in BulkProviders |-> PyNone]
    /\ bulk_requests = [p \in BulkProviders |-> 0]
    /\ ria_fetch_lock = PyNone
    /\ lock_created = 0
    /\ threads = {}

\* ROOT / "rates.json" and ROOT / "README.md": no text written by this run
NoFiles == [f \in {"rates.json", "README.md"} |-> PyNone]

InitState(P) ==
    /\ providers = P
    /\ tasks = <<>>
    /\ mainPc = "idle"
    /\ snapshot = <<>>
    /\ readme = <<>>
    /\ files = NoFiles
    /\ InitSt

Init == InitState(Registry)

mainVars == <<providers, tasks, mainPc, snapshot, readme, files>>

\* The first step of every task runs in the loop iteration after the gather
\* was built, in the order of the gather's arguments.
FirstStep(t) ==
    /\ mainPc = "gather"
    /\ nextStart = t
    /\ nextStart' = t + 1
    /\ UNCHANGED mainVars

\* A later step: after an I/O completion or a wake-up.
LaterStep(t) ==
    /\ mainPc \in {"gather", "raised"}
    /\ nextStart > NT
    /\ UNCHANGED <<nextStart, mainVars>>

-----------------------------------------------------------------------------
(* fetch_all up to the gather *)

FetchAllGather ==
    /\ mainPc = "idle"
    /\ mainPc' = "gather"
    /\ tasks' = http_tasks \o browser_tasks
    /\ pc' = [t \in 0..Len(tasks') |-> "new"]
    /\ ret' = [t \in 1..Len(tasks') |-> Pending]
    /\ UNCHANGED <<providers, nextStart, pool, init_lock, sem, pages,
                   launches, liveBrowsers, contexts, xoom_loaded, xoom_cache,
                   load_lock, snapshot, readme, files, closes, stops,
                   xoom_pages,
                   bulk_cache, bulk_requests, ria_fetch_lock, lock_created,
                   threads>>

(* The tasks' first steps *)

PrewarmStart ==
    /\ FirstStep(Prewarm)
    /\ Apply(pool_start(St, Prewarm))

WiseStart(t) ==
    /\ FirstStep(t)
    /\ tasks[t].provider = "Wise"
    /\ Apply([St EXCEPT !.pc[t] = "http"])

SendWaveStart(t) ==
    /\ FirstStep(t)
    /\ tasks[t].provider = "SendWave"
    /\ Apply(IF tasks[t].code \in DOMAIN SendWave_CORRIDORS
             THEN [St EXCEPT !.pc[t] = "http"]
             ELSE Settle(St, t, PyNone))

WesternUnionStart(t) ==
    /\ FirstStep(t)
    /\ tasks[t].provider = "Western Union"
    /\ Apply(IF tasks[t].code \in DOMAIN WesternUnion_REGIONS
             THEN pool_start(St, t)
             ELSE Settle(St, t, PyNone))

XoomStart(t) ==
    /\ FirstStep(t)
    /\ tasks[t].provider = "Xoom"
    /\ Apply(xoom_load(St, t))

(* I/O completions and wake-ups *)

WiseResponse(t, resp) ==
    /\ LaterStep(t)
    /\ tasks[t].provider = "Wise"
    /\ pc[t] = "http"
    /\ Apply(Settle(St, t, Wise_fetch_rate(tasks[t].code, resp)))

SendWaveResponse(t, resp) ==
    /\ LaterStep(t)
    /\ tasks[t].provider = "SendWave"
    /\ pc[t] = "http"
    /\ Apply(Settle(St, t, SendWave_fetch_rate(tasks[t].code, resp)))

\* _start(): the waiter got _init_lock.
InitLockAcquired(t) ==
    /\ LaterStep(t)
    /\ pc[t] = "init_wait"
    /\ init_lock.holder = t
    /\ Apply(pool_start_locked(St, t))

\* _start(): await async_playwright().start()
PlaywrightStart(t, ok) ==
    /\ LaterStep(t)
    /\ pc[t] = "pw_start"
    /\ Apply(IF ok THEN [St EXCEPT !.pool.pw = 1, !.pc[t] = "chromium_launch"]
             ELSE launch_raised(St, t))

\* _start(): await self._pw.chromium.launch(...)
ChromiumLaunch(t, ok) ==
    /\ LaterStep(t)
    /\ pc[t] = "chromium_launch"
    /\ Apply(IF ok
             THEN [St EXCEPT !.pool.browser = launches + 1,
                             !.launches = @ + 1,
                             !.liveBrowsers = @ \cup {launches + 1},
                             !.pc[t] = "new_context"]
             ELSE launch_raised(St, t))

\* _start(): await self._browser.new_context(...)
NewContext(t, ok) ==
    /\ LaterStep(t)
    /\ pc[t] = "new_context"
    /\ Apply(IF ok
             THEN [St EXCEPT !.pool.context = pool.browser,
                             !.contexts = @ + 1,
                             !.pc[t] = "add_init_script"]
             ELSE launch_raised(St, t))

\* _start(): await self._context.add_init_script(...), then _started = True
AddInitScript(t, ok) ==
    /\ LaterStep(t)
    /\ pc[t] = "add_init_script"
    /\ Apply(IF ok THEN launch_finished(St, t) ELSE launch_raised(St, t))

\* page(): the waiter got a slot of _sem.
SemAcquired(t) ==
    /\ LaterStep(t)
    /\ pc[t] = "sem_woken"
    /\ Apply(page_open(St, t))

\* WesternUnion.fetch_rate: the page block ends.
WesternUnionPage(t, o) ==
    /\ LaterStep(t)
    /\ tasks[t].provider = "Western Union"
    /\ pc[t] = "in_page"
    /\ Apply(Settle(page_exit(St, t, o.goto_exc), t,
                    WesternUnion_fetch_rate(tasks[t].code, o)))

\* Xoom._load(): the waiter got _load_lock.
XoomLoadLockAcquired(t) ==
    /\ LaterStep(t)
    /\ pc[t] = "load_wait"
    /\ load_lock.holder = t
    /\ Apply(xoom_load_locked(St, t))

\* Xoom._load(): the page block ends.
XoomPage(t, o) ==
    /\ LaterStep(t)
    /\ tasks[t].provider = "Xoom"
    /\ pc[t] = "in_page"
    /\ Apply(xoom_page_done(St, t, o))

(* The bulk-endpoint providers *)

TapTapSendStart(t) ==
    /\ FirstStep(t)
    /\ tasks[t].provider = "TapTapSend"
    /\ Apply(bulk_load(St, t))

NalaStart(t) ==
    /\ FirstStep(t)
    /\ tasks[t].provider = "NALA"
    /\ Apply(bulk_load(St, t))

TapTapSendResponse(t, resp) ==
    /\ LaterStep(t)
    /\ tasks[t].provider = "TapTapSend"
    /\ pc[t] = "http"
    /\ Apply(bulk_loaded(St, t, resp, TapTapSend_parse(resp.data, <<>>)))

NalaResponse(t, resp) ==
    /\ LaterStep(t)
    /\ tasks[t].provider = "NALA"
    /\ pc[t] = "http"
    /\ Apply(bulk_loaded(St, t, resp, Nala_parse(resp.data, <<>>)))

(* The Scrapling providers *)

RiaStart(t) ==
    /\ FirstStep(t)
    /\ tasks[t].provider = "Ria"
    /\ Apply(IF tasks[t].code \in Ria_CURRENCIES
             THEN scrapling_fetch(St, t)
             ELSE Settle(St, t, PyNone))

MoneyGramStart(t) ==
    /\ FirstStep(t)
    /\ tasks[t].provider = "MoneyGram"
    /\ Apply(IF tasks[t].code = "USD"
             THEN scrapling_fetch(St, t)
             ELSE Settle(St, t, PyNone))

NsaveStart(t) ==
    /\ FirstStep(t)
    /\ tasks[t].provider = "nsave"
    /\ Apply(IF tasks[t].code = "USD"
             THEN scrapling_fetch(St, t)
             ELSE Settle(St, t, PyNone))

\* async with _ria_fetch_lock: the waiter got the lock.
ScraplingLockAcquired(t) ==
    /\ LaterStep(t)
    /\ pc[t] = "ria_wait"
    /\ ria_fetch_lock.lock.holder = t
    /\ Apply(thread_start(St, t))

\* await asyncio.to_thread(...): the sync function ended.
ScraplingThreadDone(t, o) ==
    /\ LaterStep(t)
    /\ pc[t] = "thread"
    /\ Apply(scrapling_done(St, t,
                scrapling_fetch_sync(tasks[t].provider, tasks[t].code, o)))

-----------------------------------------------------------------------------
(* fetch_all after the gather *)

\* Mutant of GatherReturn: the snapshot is assembled and returned before
\* _pool.stop() is called.
GatherReturn_assemble_first ==
    /\ mainPc = "gather"
    /\ nextStart > NT
    /\ \A t \in 0..NT : pc[t] = "done"
    /\ mainPc' = "returned"
    /\ snapshot' = [updated_at |-> "now", target |-> TARGET,
                    rates |-> [code \in CodeSet |-> <<>>]]
    /\ UNCHANGED <<providers, tasks, nextStart, stVars, readme, files>>

\* Every awaitable of the gather returned: the session closes and
\* _pool.stop() is called.
GatherReturn ==
    /\ mainPc = "gather"
    /\ nextStart > NT
    /\ \A t \in 0..NT : pc[t] = "done"
    /\ mainPc' = "stop_browser"
    /\ UNCHANGED <<providers, tasks, nextStart, stVars, snapshot, readme,
                   files>>

\* _pool._start() raised: the gather passes the exception on at once, the
\* other tasks keep running.
GatherRaise ==
    /\ mainPc = "gather"
    /\ pc[Prewarm] = "failed"
    /\ mainPc' = "raised"
    /\ UNCHANGED <<providers, tasks, nextStart, stVars, snapshot, readme,
                   files>>

\* asyncio.run ends with fetch_all's exception: it cancels the tasks still
\* running; their async with / finally blocks release what they hold.  A
\* worker thread cannot be cancelled: it runs on.
RunnerCancelAll ==
    /\ mainPc = "raised"
    /\ mainPc' = "crashed"
    /\ Apply([St EXCEPT
            !.pc = [t \in 0..NT |->
                      IF pc[t] \in {"done", "failed"} THEN pc[t]
                      ELSE "cancelled"],
            !.pages = {},
            !.sem = [value |-> sem.value + Cardinality(pages)
                        + Cardinality({t \in TaskIds : pc[t] = "sem_woken"}),
                     waiters |-> <<>>],
            !.init_lock = [holder |-> NoTask, waiters |-> <<>>],
            !.load_lock = [holder |-> NoTask, waiters |-> <<>>],
            !.ria_fetch_lock =
                IF @.kind = "None" THEN @
                ELSE [@ EXCEPT !.lock = [holder |-> NoTask,
                                         waiters |-> <<>>]]])
    /\ UNCHANGED <<providers, tasks, nextStart, snapshot, readme, files>>

\* stop(): if self._browser: await self._browser.close()
StopBrowser ==
    /\ mainPc = "stop_browser"
    /\ mainPc' = "stop_pw"
    /\ Apply(stop_browser(St))
    /\ UNCHANGED <<providers, tasks, nextStart, snapshot, readme, files>>

\* stop(): if self._pw: await self._pw.stop(); _started = False.  Then
\* fetch_all assembles the snapshot and returns it.
StopPlaywrightAndReturn ==
    /\ mainPc = "stop_pw"
    /\ mainPc' = "returned"
    /\ Apply(stop_playwright(St))
    /\ snapshot' = assemble(gather_results)
    /\ UNCHANGED <<providers, tasks, nextStart, readme, files>>

\* asyncio.run, after the tasks were cancelled: the loop's executor is shut
\* down, which waits for the worker thread still running.
RunnerJoinThreads ==
    /\ mainPc = "crashed"
    /\ threads # {}
    /\ threads' = {}
    /\ UNCHANGED <<nextStart, mainVars, pc, ret, pool, init_lock, sem, pages,
                   launches, liveBrowsers, contexts, xoom_loaded, xoom_cache,
                   load_lock, closes, stops, xoom_pages, bulk_cache,
                   bulk_requests, ria_fetch_lock, lock_created>>

Next ==
    \/ FetchAllGather
    \/ PrewarmStart
    \/ \E t \in TaskIds : WiseStart(t)
    \/ \E t \in TaskIds : SendWaveStart(t)
    \/ \E t \in TaskIds : WesternUnionStart(t)
    \/ \E t \in TaskIds : XoomStart(t)
    \/ \E t \in TaskIds, resp \in WiseResponses : WiseResponse(t, resp)
    \/ \E t \in TaskIds, resp \in SendWaveResponses : SendWaveResponse(t, resp)
    \/ \E t \in 0..NT : InitLockAcquired(t)
    \/ \E t \in 0..NT, ok \in BOOLEAN : PlaywrightStart(t, ok)
    \/ \E t \in 0..NT, ok \in BOOLEAN : ChromiumLaunch(t, ok)
    \/ \E t \in 0..NT, ok \in BOOLEAN : NewContext(t, ok)
    \/ \E t \in 0..NT, ok \in BOOLEAN : AddInitScript(t, ok)
    \/ \E t \in TaskIds : SemAcquired(t)
    \/ \E t \in TaskIds, o \in WesternUnionOutcomes : WesternUnionPage(t, o)
    \/ \E t \in TaskIds : XoomLoadLockAcquired(t)
    \/ \E t \in TaskIds, o \in XoomOutcomes : XoomPage(t, o)
    \/ GatherReturn
    \/ GatherRaise
    \/ RunnerCancelAll
    \/ StopBrowser
    \/ StopPlaywrightAndReturn

Spec == Init /\ [][Next]_vars

-----------------------------------------------------------------------------
(* The pool's stop() called again: a run of fetch_all with one browser      *)
(* provider registered, after which the caller calls _pool.stop().          *)

\* stop() calls that return, the one of fetch_all included
MaxStops == 3

StopRegistry == <<"Western Union">>

InitStop == InitState(StopRegistry)

\* await _pool.stop(), called when asyncio.run(fetch_all()) has ended: no
\* task runs, so nothing interleaves with the two awaits of stop().
StopCall ==
    /\ mainPc \in {"returned", "crashed"}
    /\ stops < MaxStops
    /\ Apply(stop_playwright(stop_browser(St)))
    /\ UNCHANGED <<nextStart, mainVars>>

NextStop ==
    \/ FetchAllGather
    \/ PrewarmStart
    \/ \E t \in TaskIds : WesternUnionStart(t)
    \/ \E t \in 0..NT : InitLockAcquired(t)
    \/ \E t \in 0..NT, ok \in BOOLEAN : PlaywrightStart(t, ok)
    \/ \E t \in 0..NT, ok \in BOOLEAN : ChromiumLaunch(t, ok)
    \/ \E t \in 0..NT, ok \in BOOLEAN : NewContext(t, ok)
    \/ \E t \in 0..NT, ok \in BOOLEAN : AddInitScript(t, ok)
    \/ \E t \in TaskIds, o \in WesternUnionOutcomes : WesternUnionPage(t, o)
    \/ GatherReturn
    \/ GatherRaise
    \/ RunnerCancelAll
    \/ StopBrowser
    \/ StopPlaywrightAndReturn
    \/ StopCall

SpecStop == InitStop /\ [][NextStop]_vars

-----------------------------------------------------------------------------
(* A run with the bulk-endpoint providers registered *)

BulkRegistry == <<"TapTapSend", "NALA">>

InitBulk == InitState(BulkRegistry)

NextBulk ==
    \/ FetchAllGather
    \/ PrewarmStart
    \/ \E t \in TaskIds : TapTapSendStart(t)
    \/ \E t \in TaskIds : NalaStart(t)
    \/ \E t \in TaskIds, resp \in TapTapSendResponses :
          TapTapSendResponse(t, resp)
    \/ \E t \in TaskIds, resp \in NalaResponses : NalaResponse(t, resp)
    \/ \E ok \in BOOLEAN : PlaywrightStart(Prewarm, ok)
    \/ \E ok \in BOOLEAN : ChromiumLaunch(Prewarm, ok)
    \/ \E ok \in BOOLEAN : NewContext(Prewarm, ok)
    \/ \E ok \in BOOLEAN : AddInitScript(Prewarm, ok)
    \/ GatherReturn
    \/ GatherRaise
    \/ RunnerCancelAll
    \/ StopBrowser
    \/ StopPlaywrightAndReturn

SpecBulk == InitBulk /\ [][NextBulk]_vars

-----------------------------------------------------------------------------
(* A run with the Scrapling providers registered *)

ScraplingRegistry == <<"Ria", "MoneyGram", "nsave">>

InitScrapling == InitState(ScraplingRegistry)

NextScrapling ==
    \/ FetchAllGather
    \/ PrewarmStart
    \/ \E t \in TaskIds : RiaStart(t)
    \/ \E t \in TaskIds : MoneyGramStart(t)
    \/ \E t \in TaskIds : NsaveStart(t)
    \/ \E t \in TaskIds : ScraplingLockAcquired(t)
    \/ \E t \in TaskIds, o \in ScraplingOutcomes : ScraplingThreadDone(t, o)
    \/ \E ok \in BOOLEAN : PlaywrightStart(Prewarm, ok)
    \/ \E ok \in BOOLEAN : ChromiumLaunch(Prewarm, ok)
    \/ \E ok \in BOOLEAN : NewContext(Prewarm, ok)
    \/ \E ok \in BOOLEAN : AddInitScript(Prewarm, ok)
    \/ GatherReturn
    \/ GatherRaise
    \/ RunnerCancelAll
    \/ RunnerJoinThreads
    \/ StopBrowser
    \/ StopPlaywrightAndReturn

SpecScrapling == InitScrapling /\ [][NextScrapling]_vars

-----------------------------------------------------------------------------
(* build_readme on a snapshot: __main__ after asyncio.run returned, with    *)
(* the snapshot drawn from the dictionaries build_readme accepts.           *)

\* Records per bucket of a drawn snapshot
MaxBucket == 2

\* What fetch_rate returned for the records of the drawn snapshots
SampleResults ==
    {<<"Wise", PyNum(1222004)>>,
     <<"Xoom", PyNum(1222000)>>,
     <<"SendWave", PyTuple(PyNum(1215694), PyNum(9949))>>}

\* asdict(rate) of the records scrape makes of them
SampleRecords(code) == {scrape(x[1], code, x[2]) : x \in SampleResults}

Buckets(code) == UNION {[1..n -> SampleRecords(code)] : n \in 0..MaxBucket}

\* The rates mappings: any subset of the tracked codes as keys, any bucket
\* (sorted or not) as value.
RatesMaps ==
    UNION {{m \in [K -> UNION {Buckets(c) : c \in K}] :
               \A c \in K : m[c] \in Buckets(c)} : K \in SUBSET CodeSet}

InitReadme ==
    /\ providers = Registry
    /\ tasks = <<>>
    /\ mainPc = "returned"
    /\ snapshot \in {[updated_at |-> "now", target |-> TARGET, rates |-> m] :
                        m \in RatesMaps}
    /\ readme = <<>>
    /\ files = NoFiles
    /\ InitSt

\* __main__: json_path.write_text(json.dumps(data, ...))
MainWriteJson ==
    /\ mainPc = "returned"
    /\ mainPc' = "json_written"
    /\ files' = [files EXCEPT !["rates.json"] = PyStr(snapshot)]
    /\ UNCHANGED <<providers, tasks, nextStart, stVars, snapshot, readme>>

\* __main__: readme = build_readme(data)
MainBuildReadme ==
    /\ mainPc = "json_written"
    /\ mainPc' = "readme_built"
    /\ readme' = build_readme(snapshot)
    /\ UNCHANGED <<providers, tasks, nextStart, stVars, snapshot, files>>

\* __main__: readme_path.write_text(readme), after which the process ends
MainWriteReadme ==
    /\ mainPc = "readme_built"
    /\ mainPc' = "written"
    /\ files' = [files EXCEPT !["README.md"] = PyStr(readme)]
    /\ UNCHANGED <<providers, tasks, nextStart, stVars, snapshot, readme>>

NextReadme ==
    \/ MainWriteJson
    \/ MainBuildReadme
    \/ MainWriteReadme

SpecReadme == InitReadme /\ [][NextReadme]_vars

-----------------------------------------------------------------------------
(* The whole of __main__: asyncio.run(fetch_all()) with one HTTP provider   *)
(* and one browser provider registered, then the two files are written.     *)

MainRegistry == <<"Wise", "Western Union">>

InitMain == InitState(MainRegistry)

NextMain ==
    \/ FetchAllGather
    \/ PrewarmStart
    \/ \E t \in TaskIds : WiseStart(t)
    \/ \E t \in TaskIds : WesternUnionStart(t)
    \/ \E t \in TaskIds, resp \in WiseResponses : WiseResponse(t, resp)
    \/ \E t \in 0..NT : InitLockAcquired(t)
    \/ \E t \in 0..NT, ok \in BOOLEAN : PlaywrightStart(t, ok)
    \/ \E t \in 0..NT, ok \in BOOLEAN : ChromiumLaunch(t, ok)
    \/ \E t \in 0..NT, ok \in BOOLEAN : NewContext(t, ok)
    \/ \E t \in 0..NT, ok \in BOOLEAN : AddInitScript(t, ok)
    \/ \E t \in TaskIds, o \in WesternUnionOutcomes : WesternUnionPage(t, o)
    \/ GatherReturn
    \/ GatherRaise
    \/ RunnerCancelAll
    \/ StopBrowser
    \/ StopPlaywrightAndReturn
    \/ MainWriteJson
    \/ MainBuildReadme
    \/ MainWriteReadme

SpecMain == InitMain /\ [][NextMain]_vars

-----------------------------------------------------------------------------
(* Properties *)

Returned == mainPc = "returned"

\* fetch_all ended by raising
Failed == mainPc \in {"raised", "crashed"}

\* Every task of the gather has settled: returned, raised or was cancelled.
Settled ==
    /\ mainPc # "idle"
    /\ \A t \in 0..NT : pc[t] \in {"done", "failed", "cancelled"}

\* fetch_rate of task t returned a rate, bare or with a fee
ReturnedRate(t) == ret[t].kind \in {"num", "tuple"}

RateOf(t) == IF ret[t].kind = "tuple" THEN ret[t].rate.val ELSE ret[t].val

Bucket(code) == snapshot.rates[code]

\* The records of provider p in the bucket of code
RecordsOf(p, code) ==
    {i \in DOMAIN Bucket(code) : Bucket(code)[i].provider = p}

\* The bucket of task t's code holds a record of t's provider whose rate is
\* the returned rate to three decimals.
HasRecord(t) ==
    \E i \in RecordsOf(tasks[t].provider, tasks[t].code) :
        LET d == Bucket(tasks[t].code)[i].rate - RateOf(t)
        IN  /\ Bucket(tasks[t].code)[i].rate % 10 = 0
            /\ 2 * d <= 10 /\ 2 * d >= 0 - 10

\* C1: Resilience. Whatever subset of the tasks raises or times out,
\* fetch_all does not end by raising, and the snapshot it returns holds a
\* record for every task whose fetch_rate returned a rate.
C1_Resilience ==
    /\ ~Failed
    /\ Returned => \A t \in TaskIds : ReturnedRate(t) => HasRecord(t)

\* C2: If the browser launch fails (_pool._start() raises), fetch_all still
\* completes, and its snapshot holds the record of every non-browser task
\* that returned a rate.
C2_LaunchFailureTolerated ==
    pc # <<>> /\ pc[Prewarm] = "failed" =>
        /\ ~Failed
        /\ Returned =>
             \A t \in TaskIds :
                ~needs_browser(tasks[t].provider) /\ ReturnedRate(t)
                    => HasRecord(t)

\* C3: Within one run the browser (playwright start, chromium launch,
\* context creation) is launched at most once, and once the pool is started
\* exactly once.
C3_LaunchedOnce ==
    /\ contexts <= 1
    /\ launches <= 1
    /\ pool.started => contexts = 1

C6_Sorted ==
    Returned =>
        \A code \in CodeSet :
            \A i, j \in DOMAIN Bucket(code) :
                i < j => Bucket(code)[i].rate >= Bucket(code)[j].rate

\* C6 witness: a bucket whose records were appended in another order than
\* the sorted one.
C6_Witness ==
    /\ Returned
    /\ \E code \in CodeSet : Bucket(code) # bucket(gather_results, code)

\* C7: One task per (provider, tracked code) pair; in the snapshot the
\* record of the task for (P, C) is in bucket C only, and a provider has at
\* most one record per bucket.
C7_OneRecordPerPair ==
    /\ mainPc # "idle" =>
         \A i \in DOMAIN providers, k \in DOMAIN Codes :
            Cardinality({t \in TaskIds :
                            tasks[t] = [provider |-> providers[i],
                                        code |-> Codes[k]]}) = 1
    /\ Returned =>
         \A code \in CodeSet :
            /\ \A i \in DOMAIN providers :
                  Cardinality(RecordsOf(providers[i], code)) <= 1
            /\ \A t \in TaskIds :
                  LET n == Cardinality(RecordsOf(tasks[t].provider, code))
                  IN  IF tasks[t].code = code /\ ReturnedRate(t)
                      THEN n = 1 /\ HasRecord(t)
                      ELSE tasks[t].code = code => n = 0

\* C7 witness: a provider with a record in one bucket and none in the other.
C7_Witness ==
    /\ Returned
    /\ \E i \in DOMAIN providers, c1, c2 \in CodeSet :
          /\ RecordsOf(providers[i], c1) # {}
          /\ RecordsOf(providers[i], c2) = {}
    /\ \E code \in CodeSet : Len(Bucket(code)) >= 2

\* C8: Every record of the returned snapshot has a rate > 0.
C8_RatePositive ==
    Returned =>
        \A code \in CodeSet :
            \A i \in DOMAIN Bucket(code) : Bucket(code)[i].rate > 0

\* C9: For a task whose fetch_rate returned None, scrape returns None and
\* the bucket holds no record of its provider (no record with a null rate,
\* no error record).
C9_NoneNoRecord ==
    Returned =>
        \A t \in TaskIds :
            ret[t] = PyNone =>
                /\ scrape(tasks[t].provider, tasks[t].code, ret[t]) = PyNone
                /\ RecordsOf(tasks[t].provider, tasks[t].code) = {}

\* C9 witness: a task returned None while another task of the same code
\* produced a record.
C9_Witness ==
    /\ Returned
    /\ \E t \in TaskIds :
          ret[t] = PyNone /\ Len(Bucket(tasks[t].code)) >= 1

\* C10 as stated: the record's fee is null for a bare rate or a (rate, None)
\* pair, and is the provider's fee value itself for a (rate, fee) pair.
C10_FeeVerbatim ==
    Returned =>
        \A t \in TaskIds :
            ReturnedRate(t) =>
                \A i \in RecordsOf(tasks[t].provider, tasks[t].code) :
                    LET rec == Bucket(tasks[t].code)[i]
                    IN  /\ "fee" \in DOMAIN rec
                        /\ rec.fee = IF ret[t].kind = "tuple"
                                     THEN ret[t].fee ELSE PyNone

\* C10 amended: every record has a fee key; it is null for a bare rate or a
\* (rate, None) pair, and the provider's fee rounded to two decimals for a
\* (rate, fee) pair.
C10_FeeRounded ==
    Returned =>
        \A t \in TaskIds :
            ReturnedRate(t) =>
                \A i \in RecordsOf(tasks[t].provider, tasks[t].code) :
                    LET rec == Bucket(tasks[t].code)[i]
                        fee == IF ret[t].kind = "tuple"
                               THEN ret[t].fee ELSE PyNone
                    IN  /\ "fee" \in DOMAIN rec
                        /\ fee = PyNone => rec.fee = PyNone
                        /\ fee # PyNone =>
                             /\ rec.fee.kind = "num"
                             /\ rec.fee.val % 100 = 0
                             /\ 2 * (rec.fee.val - fee.val) <= 100
                             /\ 2 * (fee.val - rec.fee.val) <= 100

\* C10 witness: a bucket with a record that has a fee and one that has none.
C10_Witness ==
    /\ Returned
    /\ \E code \in CodeSet :
          \E i, j \in DOMAIN Bucket(code) :
              Bucket(code)[i].fee # PyNone /\ Bucket(code)[j].fee = PyNone

\* C11: In every snapshot fetch_all returns, the keys of the rates mapping
\* are exactly the tracked currency codes, and a code for which no provider
\* produced a record has the empty list as its bucket.
C11_KeySet ==
    Returned =>
        /\ DOMAIN snapshot.rates = CodeSet
        /\ \A code \in CodeSet :
              (\A t \in TaskIds : tasks[t].code = code => ~ReturnedRate(t))
                  => snapshot.rates[code] = <<>>

\* C11 witness: a snapshot with an empty bucket and a non-empty one.
C11_Witness ==
    /\ Returned
    /\ \E c1, c2 \in CodeSet :
          snapshot.rates[c1] = <<>> /\ snapshot.rates[c2] # <<>>

\* The pool as BrowserPool() made it: nothing was ever started.
NeverStarted ==
    /\ stops = 0
    /\ pool = [started |-> FALSE, pw |-> 0, browser |-> 0, context |-> 0]

\* C12: stop() is idempotent: a stop() call that follows a stop() call, or
\* that is made on a pool that was never started, closes nothing, and
\* leaves the pool as it was (the state after the first call).
C12_StopIdempotent ==
    [][(stops' = stops + 1 /\ (stops >= 1 \/ NeverStarted))
          => UNCHANGED <<pool, liveBrowsers, closes>>]_vars

\* C12 witness: stop() has returned twice, and the first call closed the
\* browser and stopped playwright.
C12_Witness == stops >= 2 /\ closes = 2

\* Reading the lines of the readme back

Built == mainPc \in {"readme_built", "written"}

Heading(code) == "### " \o code \o " to BDT"

IsHeading(line) == Len(line) >= 4 /\ SubSeq(line, 1, 4) = "### "

\* The lines from the heading of code to the next heading, both excluded
SectionOf(code) ==
    LET h == CHOOSE i \in DOMAIN readme : readme[i] = Heading(code)
        later == {j \in DOMAIN readme : j > h /\ IsHeading(readme[j])}
        e == IF later = {} THEN Len(readme)
             ELSE (CHOOSE j \in later : \A k \in later : j <= k) - 1
    IN  SubSeq(readme, h + 1, e)

\* The cells of a table line "| a | b | c |": the pieces between the
\* separators " | "
Cells(line) ==
    LET str == SubSeq(line, 3, Len(line) - 2)
        seps == {k \in 1..(Len(str) - 2) : SubSeq(str, k, k + 2) = " | "}
        n == Cardinality(seps)
        nth(j) == CHOOSE k \in seps : Cardinality({m \in seps : m < k}) = j - 1
    IN  [j \in 1..(n + 1) |->
            SubSeq(str, IF j = 1 THEN 1 ELSE nth(j - 1) + 3,
                        IF j = n + 1 THEN Len(str) ELSE nth(j) - 1)]

\* The bucket build_readme reads for code
Read(code) == rates_get(snapshot.rates, code)

\* The cells of the i-th row of the table of code
RowCells(code, i) == Cells(SectionOf(code)[3 + i])

IsBold(cell) ==
    /\ Len(cell) > 4
    /\ SubSeq(cell, 1, 2) = "**"
    /\ SubSeq(cell, Len(cell) - 1, Len(cell)) = "**"

SortedDesc(rates) ==
    \A i, j \in DOMAIN rates : i < j => rates[i].rate >= rates[j].rate

\* C13: For every currency with at least one record, the rank and the rate
\* of a row are bold if and only if the row's rate equals the rate of the
\* bucket's first record; row 1 is bold, and in a bucket sorted descending
\* the bold rows are exactly the records with the highest rate.
C13_BoldIffBest ==
    Built =>
        \A code \in CodeSet :
            Read(code) # <<>> =>
                /\ IsBold(RowCells(code, 1)[1])
                /\ \A i \in DOMAIN Read(code) :
                      LET r == Read(code)[i]
                          cells == RowCells(code, i)
                          best == r.rate = Read(code)[1].rate
                      IN  /\ cells[1] = IF best THEN "**" \o NatStr(i) \o "**"
                                        ELSE NatStr(i)
                          /\ cells[3] = IF best
                                        THEN "**" \o Format3(r.rate) \o "**"
                                        ELSE Format3(r.rate)
                          /\ SortedDesc(Read(code)) =>
                                (IsBold(cells[1]) <=>
                                    \A j \in DOMAIN Read(code) :
                                        r.rate >= Read(code)[j].rate)

\* C13 witness: a table with two rows tied for the best rate and a table
\* whose second row has a lower rate.
C13_Witness ==
    /\ Built
    /\ \E c1, c2 \in CodeSet :
          /\ Len(Read(c1)) = 2 /\ Len(Read(c2)) = 2
          /\ Read(c1)[1].rate = Read(c1)[2].rate
          /\ Read(c1)[1].provider # Read(c1)[2].provider
          /\ Read(c2)[2].rate < Read(c2)[1].rate

\* C14: Every tracked currency gets exactly one section, in CURRENCIES
\* order; for a currency whose bucket is empty or missing the section is
\* its heading followed by "No rates available." and no table.
C14_NoRates ==
    Built =>
        /\ SelectSeq(readme, IsHeading)
              = [k \in 1..Len(Codes) |-> Heading(Codes[k])]
        /\ \A code \in CodeSet :
              Read(code) = <<>> =>
                  SectionOf(code) = <<"", "No rates available.", "">>

\* C14 witness: one currency is missing from the snapshot, another has a
\* table.
C14_Witness ==
    /\ Built
    /\ \E c1, c2 \in CodeSet :
          c1 \notin DOMAIN snapshot.rates /\ Read(c2) # <<>>

\* C15: A currency's table has a Fee column if and only if at least one
\* record of the bucket has a non-null fee; there a record with a null fee
\* shows the dash and a record with fee f shows f with two decimals
\* followed by the currency code.
C15_FeeColumn ==
    Built =>
        \A code \in CodeSet :
            Read(code) # <<>> =>
                LET header == Cells(SectionOf(code)[2])
                    any_fee == \E i \in DOMAIN Read(code) :
                                   Read(code)[i].fee # PyNone
                IN  /\ (\E k \in DOMAIN header : header[k] = "Fee") <=> any_fee
                    /\ Len(header) = IF any_fee THEN 5 ELSE 4
                    /\ \A i \in DOMAIN Read(code) :
                          LET r == Read(code)[i]
                              cells == RowCells(code, i)
                          IN  /\ Len(cells) = Len(header)
                              /\ any_fee =>
                                    cells[4] =
                                      IF r.fee = PyNone THEN EmDash
                                      ELSE Format2(r.fee.val) \o " " \o code

\* C15 witness: the USD table shows the dash for Wise and "0.99 USD" for
\* SendWave.
C15_Witness ==
    /\ Built
    /\ Len(Read("USD")) = 2
    /\ Read("USD")[1].provider = "Wise"
    /\ RowCells("USD", 1)[4] = EmDash
    /\ RowCells("USD", 2)[4] = "0.99 USD"

\* The positions of a task inside a launch attempt of _start()
LaunchPcs == {"pw_start", "chromium_launch", "new_context", "add_init_script"}

\* C16: In every execution of fetch_all the pool is stopped: stop() begins
\* only when every task has settled and no page is open, and no execution
\* ends (by returning or by raising) with stop() not called or with the
\* browser or playwright left running.
C16_PoolStopped ==
    /\ mainPc \in {"stop_browser", "stop_pw", "returned"} =>
          Settled /\ pages = {}
    /\ mainPc \in {"returned", "crashed"} =>
          /\ stops >= 1
          /\ liveBrowsers = {}
          /\ pool.browser = 0 /\ pool.pw = 0

\* C17: When the launch failed (here in the pre-warm _start(), the first
\* caller), it is not retried: no later page() / _start() call of the run
\* is inside another launch attempt.
C17_NoRetry ==
    pc # <<>> /\ pc[Prewarm] = "failed" =>
        \A t \in TaskIds : pc[t] \notin LaunchPcs

\* C18: For each bulk-endpoint provider (TapTapSend, NALA) the bulk endpoint
\* is requested at most once per run of fetch_all.
C18_BulkOnce == \A p \in BulkProviders : bulk_requests[p] <= 1

\* C19: Across the fetch_rate calls of all currencies Xoom._load opens at
\* most one browser page, whatever the outcome of the load.
C19_XoomLoadsOnce == xoom_pages <= 1

\* The tasks inside a Scrapling fetch: waiting for the lock or in a thread
InScrapling == {t \in DOMAIN pc : pc[t] \in {"ria_wait", "thread"}}

\* C20: At most one Scrapling fetch runs in a worker thread at any time:
\* the Ria, MoneyGram and nsave fetches go through one lock, made exactly
\* once, and a thread that runs is the one of the lock's holder.
C20_OneScraplingFetch ==
    /\ Cardinality(threads) <= 1
    /\ lock_created <= 1
    /\ InScrapling # {} =>
          /\ lock_created = 1
          /\ ria_fetch_lock.kind = "Lock"
          /\ threads \subseteq {ria_fetch_lock.lock.holder}

\* C20 witness: a Ria fetch runs in its thread while the MoneyGram, nsave
\* and second Ria fetch wait for the lock.
C20_Witness ==
    /\ \E t \in threads : tasks[t].provider = "Ria"
    /\ \A p \in {"Ria", "MoneyGram", "nsave"} :
          \E t \in TaskIds : tasks[t].provider = p /\ pc[t] = "ria_wait"

-----------------------------------------------------------------------------
(* A run with providers that between them use every lock: the pool's init   *)
(* lock and page semaphore, Xoom's load lock and the Scrapling lock.  The   *)
(* event loop runs a task that is ready, an awaited operation returns or    *)
(* raises, asyncio.run goes on when fetch_all has ended: a step that can be *)
(* taken is not put off for ever.                                           *)

LockRegistry == <<"Ria", "Western Union", "Xoom">>

InitLocks == InitState(LockRegistry)

NextLocks ==
    \/ FetchAllGather
    \/ PrewarmStart
    \/ \E t \in TaskIds : RiaStart(t)
    \/ \E t \in TaskIds : WesternUnionStart(t)
    \/ \E t \in TaskIds : XoomStart(t)
    \/ \E t \in TaskIds : ScraplingLockAcquired(t)
    \/ \E t \in TaskIds, o \in ScraplingOutcomes : ScraplingThreadDone(t, o)
    \/ \E t \in 0..NT : InitLockAcquired(t)
    \/ \E t \in 0..NT, ok \in BOOLEAN : PlaywrightStart(t, ok)
    \/ \E t \in 0..NT, ok \in BOOLEAN : ChromiumLaunch(t, ok)
    \/ \E t \in 0..NT, ok \in BOOLEAN : NewContext(t, ok)
    \/ \E t \in 0..NT, ok \in BOOLEAN : AddInitScript(t, ok)
    \/ \E t \in TaskIds : SemAcquired(t)
    \/ \E t \in TaskIds, o \in WesternUnionOutcomes : WesternUnionPage(t, o)
    \/ \E t \in TaskIds : XoomLoadLockAcquired(t)
    \/ \E t \in TaskIds, o \in XoomOutcomes : XoomPage(t, o)
    \/ GatherReturn
    \/ GatherRaise
    \/ RunnerCancelAll
    \/ RunnerJoinThreads
    \/ StopBrowser
    \/ StopPlaywrightAndReturn

SpecLocks == InitLocks /\ [][NextLocks]_vars /\ WF_vars(NextLocks)

-----------------------------------------------------------------------------
(* The phases of a run *)

\* Where the run is: 0 idle, 1 fetching, 2 browser shutdown (inside
\* _pool.stop()), 3 snapshot assembled (fetch_all returned), 4 output files
\* being written or written; 5 when fetch_all raised.
Phase ==
    CASE mainPc = "idle" -> 0
      [] mainPc = "gather" -> 1
      [] mainPc \in {"stop_browser", "stop_pw"} -> 2
      [] mainPc = "returned" -> 3
      [] mainPc \in {"json_written", "readme_built", "written"} -> 4
      [] OTHER -> 5

FilesWritten == \A f \in DOMAIN files : files[f] # PyNone

\* C21 as stated: the browser is shut down after the snapshot has been
\* assembled and the output files have been written, so whenever the pool's
\* stop() has begun closing (a close call was made) the snapshot exists and
\* both files are written.
C21_ShutdownLast ==
    closes > 0 => Phase >= 3 /\ FilesWritten

\* C21 amended: the phases are entered in the order fetching, browser
\* shutdown, snapshot assembled, output files written, one after the other
\* and never again: the pool is stopped once, when every task of the gather
\* has ended and before the snapshot exists; the snapshot is assembled once,
\* when the browser is closed; a file is written once, from the assembled
\* snapshot, after the pool was stopped.  A run whose fetching raised enters
\* no later phase.
C21_ShutdownBeforeAssembly ==
    [][/\ Phase' # Phase =>
            \/ Phase' = Phase + 1 /\ Phase < 4
            \/ Phase = 1 /\ Phase' = 5
       /\ (closes' # closes \/ stops' # stops) =>
            /\ Phase = 2
            /\ \A t \in 0..NT : pc[t] = "done"
            /\ stops = 0
            /\ files = NoFiles
       /\ Phase' = 3 =>
            /\ closes >= 1
            /\ liveBrowsers' = {}
            /\ stops' = 1
            /\ files' = NoFiles
       /\ snapshot' # snapshot => Phase = 2 /\ Phase' = 3
       /\ \A f \in DOMAIN files :
            files'[f] # files[f] =>
                /\ files[f] = PyNone
                /\ Phase' = 4
                /\ stops = 1
                /\ liveBrowsers = {}
                /\ snapshot' = snapshot]_vars

\* A run that wrote both files, after it closed the browser it had launched
\* and stopped the pool.
C21_Witness ==
    /\ mainPc = "written"
    /\ FilesWritten
    /\ files["rates.json"] = PyStr(snapshot)
    /\ launches = 1
    /\ liveBrowsers = {}
    /\ stops = 1

-----------------------------------------------------------------------------
(* Discovery order *)

\* The place of provider p in _providers, the order of registration
RegIndex(p) == CHOOSE i \in DOMAIN providers : providers[i] = p

\* Provider p comes before provider q in the task list of one code: the
\* non-browser providers in registration order, then the browser providers
\* in registration order.
Discovered(p, q) ==
    \/ ~needs_browser(p) /\ needs_browser(q)
    \/ needs_browser(p) = needs_browser(q) /\ RegIndex(p) < RegIndex(q)

\* Two records of the bucket of code with equal rates
Tie(code, i, j) ==
    /\ i < j
    /\ Bucket(code)[i].rate = Bucket(code)[j].rate

\* C22: in the snapshot fetch_all returns, whatever the order in which the
\* tasks ran and ended, two records of one bucket with equal rates stand in
\* discovery order: the record of the provider that comes first in the task
\* list stands first.
C22_TiesInDiscoveryOrder ==
    Returned =>
        \A code \in CodeSet :
            \A i, j \in DOMAIN Bucket(code) :
                Tie(code, i, j) =>
                    Discovered(Bucket(code)[i].provider,
                               Bucket(code)[j].provider)

\* A snapshot with a bucket where a non-browser provider and two browser
\* providers have equal rates.
C22_Witness ==
    /\ Returned
    /\ \E code \in CodeSet :
          \E i, j, k \in DOMAIN Bucket(code) :
              /\ Tie(code, i, j)
              /\ Tie(code, j, k)
              /\ Bucket(code)[i].provider = "Wise"
              /\ Bucket(code)[j].provider = "Western Union"
              /\ Bucket(code)[k].provider = "Xoom"

-----------------------------------------------------------------------------
(* Termination *)

\* fetch_all has ended, by returning or by raising out of asyncio.run, every
\* task of the gather has settled and no worker thread runs.
Terminated ==
    /\ mainPc \in {"returned", "crashed"}
    /\ Settled
    /\ threads = {}

\* C23: when every step that can be taken is eventually taken (an awaited
\* operation returns or raises, a woken task runs), every execution of
\* fetch_all ends: no state is reached where tasks wait for one another on
\* the init lock, the page semaphore, Xoom's load lock or the Scrapling lock,
\* and every task settles.
C23_Terminates == <>Terminated

\* Every kind of waiting at once: a Xoom task holds the load lock while it
\* waits for the page slot another task's page occupies, a second Xoom task
\* waits for the load lock, and a Scrapling task waits for the Scrapling
\* lock while another one's fetch runs in a worker thread.
C23_Witness ==
    /\ mainPc = "gather"
    /\ pages # {}
    /\ \E t, u \in TaskIds :
          /\ load_lock.holder = t
          /\ pc[t] = "sem_wait"
          /\ pc[u] = "load_wait"
    /\ threads # {}
    /\ \E t \in TaskIds : pc[t] = "ria_wait"

====
